---- MODULE Spec2Model ----
(***************************************************************************)
(* A model of rust/net/src/cdsi.rs: the CDSI lookup client.                *)
(*                                                                         *)
(*   - the response decoder (TryFrom<ClientResponse> for LookupResponse,   *)
(*     LookupResponseEntry::try_parse_from, E164::from_serialized);        *)
(*   - the session: CdsiConnection::connect, CdsiConnection::send_request  *)
(*     and ClientResponseCollector::collect, one step per await;           *)
(*   - the conversions into LookupError.                                   *)
(*                                                                         *)
(* Bytes are integers 0..255 and buffers are sequences of bytes.  A u64 is *)
(* kept as four 16-bit limbs and a u32 as two, most significant first: the *)
(* values of the program (18005551001, 4294967295) do not fit the integers *)
(* of the model checker.                                                   *)
(*                                                                         *)
(* The channel (AttestedConnection: send, receive, receive_bytes) and the  *)
(* enclave connect are the environment: each call yields any of the        *)
(* results its type allows.  Not modelled: AsMut<AttestedConnection>, by   *)
(* which a caller may use the channel itself before send_request, and the  *)
(* caller dropping a future at an await.                                   *)
(***************************************************************************)
EXTENDS Integers, Sequences, FiniteSets, TLC

VARIABLES
    pc,            \* position of the session (which await it is suspended at)
    holds,         \* who owns the channel: the moved-by-value handles
    calls,         \* how many times each phase operation was entered
    ops,           \* history: the operations performed on the channel
    tokenEvent,    \* history: what the receive of send_request yielded
    srResult,      \* the value send_request returned
    response,      \* collect's accumulator (`let mut response`)
    streamed,      \* history: wire messages received by collect, in order
    lastEvent,     \* history: what the latest receive of collect yielded
    parsed,        \* the value of response.try_into() in collect
    collectResult, \* the value collect returned
    connectResult, \* the value connect returned
    cause,         \* history: the lower-layer error a `?` or From converted
    cin,           \* decoder under test: the ClientResponse given
    cout,          \* decoder under test: the value try_from returned
    ein,           \* encoder under test: the LookupRequest given
    eout           \* encoder under test: the ClientRequest made of it

sessionVars == <<pc, holds, calls, ops, tokenEvent, srResult, response,
                 streamed, lastEvent, parsed, collectResult, connectResult,
                 cause>>
codecVars == <<cin, cout, ein, eout>>
vars == <<pc, holds, calls, ops, tokenEvent, srResult, response, streamed,
          lastEvent, parsed, collectResult, connectResult, cause, cin, cout, ein, eout>>

----------------------------------------------------------------------------
(* Program constants.                                                      *)

\* E164::SERIALIZED_LEN
E164_SERIALIZED_LEN == 8
\* LookupResponseEntry::UUID_LEN
UUID_LEN == 16
\* LookupResponseEntry::SERIALIZED_LEN
SERIALIZED_LEN == E164_SERIALIZED_LEN + UUID_LEN * 2
\* RateLimitExceededResponse::CLOSE_CODE
CLOSE_CODE == 4008
\* <AciAndAccessKey as FixedLengthSerializable>::SERIALIZED_LEN
ACI_UAK_SERIALIZED_LEN == 32

(* Bounds of the model.                                                    *)

\* the most raw messages the service streams after the first one
MaxFrames == 2
\* the most 40-byte chunks in a buffer given to the decoder under test
MaxChunks == 2
\* the most items in a list of a request given to the encoder under test
MaxItems == 2

----------------------------------------------------------------------------
(* Bytes and buffers.                                                      *)

Zeros(n) == [i \in 1..n |-> 0]

\* a[from..to) in Rust's half-open, zero-based indexing
Slice(a, from, to) == SubSeq(a, from + 1, to)

None == [some |-> FALSE]
Some(v) == [some |-> TRUE, v |-> v]

Ok(v) == [ok |-> TRUE, v |-> v]
Err(e) == [ok |-> FALSE, e |-> e]

\* the error value of a lower layer that reached a conversion into LookupError
Raised(layer, e) == Some([layer |-> layer, e |-> e])

\* u64::from_be_bytes, the u64 as four 16-bit limbs, most significant first
U64FromBeBytes(bytes) ==
    [k \in 1..4 |-> bytes[2 * k - 1] * 256 + bytes[2 * k]]

NonZeroU64New_AcceptsZero(limbs) == Some(limbs)

\* NonZeroU64::new
NonZeroU64New(limbs) ==
    IF \A k \in 1..4 : limbs[k] = 0 THEN None ELSE Some(limbs)

\* E164::from_serialized: NonZeroU64::new(u64::from_be_bytes(bytes)).map(Self)
E164FromSerialized(bytes) == NonZeroU64New(U64FromBeBytes(bytes))

\* Uuid::is_nil
IsNil(bytes) == \A i \in 1..Len(bytes) : bytes[i] = 0

\* non_nil_uuid: (!uuid.is_nil()).then(|| uuid.into())
NonNilUuid(bytes) == IF IsNil(bytes) THEN None ELSE Some(bytes)

TryParseFrom_AciPniSwapped(record) ==
    LET e164_bytes == Slice(record, 0, E164_SERIALIZED_LEN)
        rest == Slice(record, E164_SERIALIZED_LEN, Len(record))
        e164 == E164FromSerialized(e164_bytes)
        pni_bytes == Slice(rest, 0, UUID_LEN)
        aci_bytes == Slice(rest, UUID_LEN, Len(rest))
    IN  IF ~e164.some THEN None
        ELSE Some([e164 |-> e164.v,
                   aci |-> NonNilUuid(pni_bytes),
                   pni |-> NonNilUuid(aci_bytes)])

\* LookupResponseEntry::try_parse_from
TryParseFrom(record) ==
    LET e164_bytes == Slice(record, 0, E164_SERIALIZED_LEN)
        rest == Slice(record, E164_SERIALIZED_LEN, Len(record))
        e164 == E164FromSerialized(e164_bytes)
        pni_bytes == Slice(rest, 0, UUID_LEN)
        aci_bytes == Slice(rest, UUID_LEN, Len(rest))
    IN  IF ~e164.some THEN None
        ELSE Some([e164 |-> e164.v,
                   aci |-> NonNilUuid(aci_bytes),
                   pni |-> NonNilUuid(pni_bytes)])

\* slice::chunks(n): consecutive chunks of n bytes, the last one shorter
\* when n does not divide the length
RECURSIVE Chunks(_, _)
Chunks(buf, n) ==
    IF Len(buf) = 0 THEN <<>>
    ELSE IF Len(buf) <= n THEN <<buf>>
    ELSE <<SubSeq(buf, 1, n)>> \o Chunks(SubSeq(buf, n + 1, Len(buf)), n)

\* Iterator::flat_map over Option: the Some values, in order
RECURSIVE FlatMapParse(_)
FlatMapParse(chunks) ==
    IF chunks = <<>> THEN <<>>
    ELSE LET r == TryParseFrom(Head(chunks))
         IN  (IF r.some THEN <<r.v>> ELSE <<>>) \o FlatMapParse(Tail(chunks))

LookupResponseTryFrom_NoLengthCheck(resp) ==
    Ok([records |-> FlatMapParse(Chunks(
                        SubSeq(resp.e164_pni_aci_triples, 1,
                               Len(resp.e164_pni_aci_triples)
                                 - (Len(resp.e164_pni_aci_triples) % SERIALIZED_LEN)),
                        SERIALIZED_LEN)),
        debug_permits_used |-> resp.debug_permits_used])

\* TryFrom<ClientResponse> for LookupResponse
LookupResponseTryFrom(resp) ==
    IF Len(resp.e164_pni_aci_triples) % SERIALIZED_LEN # 0
    THEN Err([kind |-> "InvalidNumberOfBytes",
              actual_length |-> Len(resp.e164_pni_aci_triples)])
    ELSE Ok([records |-> FlatMapParse(Chunks(resp.e164_pni_aci_triples,
                                              SERIALIZED_LEN)),
             debug_permits_used |-> resp.debug_permits_used])

----------------------------------------------------------------------------
(* Sample field values.  ACI_BYTES, PNI_BYTES and the phone number         *)
(* +18005551001 are those of test::parse_lookup_response_entries.          *)

ACI_BYTES == <<1, 2, 3, 4, 5, 6, 7, 8, 161, 162, 163, 164, 165, 166, 167, 168>>
PNI_BYTES == <<177, 178, 179, 180, 181, 182, 183, 184, 17, 18, 19, 20, 21, 22, 23, 24>>
\* a uuid whose only non-zero byte is its last one
UUID_LOW == Zeros(15) \o <<1>>
\* 18005551001 = 0x000000043136e799, big-endian
E164_TEST_BYTES == <<0, 0, 0, 4, 49, 54, 231, 153>>
\* 2^56: the only non-zero byte is the first one
E164_HIGH_BYTES == <<1>> \o Zeros(7)

E164Samples == {Zeros(8), E164_TEST_BYTES, E164_HIGH_BYTES}
PniSamples == {Zeros(16), PNI_BYTES}
AciSamples == {Zeros(16), ACI_BYTES, UUID_LOW}

\* a 40-byte wire record: phone number, PNI slot, ACI slot
WireRecord(e164, pni, aci) == e164 \o pni \o aci

RecordSamples ==
    {WireRecord(e, p, a) : e \in E164Samples, p \in PniSamples, a \in AciSamples}

RECURSIVE RecordSeqs(_)
RecordSeqs(n) ==
    IF n = 0 THEN {<<>>}
    ELSE {b \o r : b \in RecordSeqs(n - 1), r \in RecordSamples}

\* buffers of whole records, and the same buffers cut 1 or 39 bytes short
WholeBuffers == UNION {RecordSeqs(n) : n \in 0..MaxChunks}
RaggedBuffers ==
    {SubSeq(b, 1, Len(b) - k) : b \in WholeBuffers \ {<<>>}, k \in {1, 39}}
\* three records, one of them with an all-zero phone number
GapBuffers ==
    LET a == WireRecord(E164_TEST_BYTES, PNI_BYTES, ACI_BYTES)
        b == WireRecord(E164_HIGH_BYTES, Zeros(16), UUID_LOW)
        z == WireRecord(Zeros(8), PNI_BYTES, ACI_BYTES)
    IN  {a \o z \o b, b \o z \o a, z \o a \o b, a \o b \o z, z \o z \o b}
Buffers == WholeBuffers \cup RaggedBuffers \cup GapBuffers

PermitSamples == {0, 42}

----------------------------------------------------------------------------
(* The decoder on its own: a ClientResponse is drawn, try_from is applied. *)

DecodeStep ==
    /\ ~cout.some
    /\ cout' = Some(LookupResponseTryFrom(cin))
    /\ UNCHANGED <<cin, ein, eout, sessionVars>>

----------------------------------------------------------------------------
(* The encoder: FixedLengthSerializable, collect_serialized and            *)
(* LookupRequest::into_client_request.                                     *)

U64ToBeBytes_LittleEndian(limbs) ==
    [j \in 1..8 |-> IF j % 2 = 1 THEN limbs[4 - (j \div 2)] % 256
                    ELSE limbs[5 - (j \div 2)] \div 256]

\* u64::to_be_bytes, of a u64 held as four 16-bit limbs
U64ToBeBytes(limbs) ==
    [j \in 1..8 |-> IF j % 2 = 1 THEN limbs[(j + 1) \div 2] \div 256
                    ELSE limbs[j \div 2] % 256]

\* slice::copy_from_slice: the source, which must be as long as the target
CopyFromSlice(target, src) == CASE Len(target) = Len(src) -> src

\* <E164 as FixedLengthSerializable>::serialize_into: the target afterwards
E164SerializeInto(item, target) == CopyFromSlice(target, U64ToBeBytes(item))

\* <AciAndAccessKey as FixedLengthSerializable>::serialize_into
AciAndAccessKeySerializeInto(item, target) ==
    LET uuid_bytes == item.aci
    IN  CopyFromSlice(Slice(target, 0, Len(uuid_bytes)), uuid_bytes)
          \o CopyFromSlice(Slice(target, Len(uuid_bytes), Len(target)),
                           item.access_key)

RECURSIVE Flatten(_)
Flatten(chunks) ==
    IF chunks = <<>> THEN <<>> ELSE Head(chunks) \o Flatten(Tail(chunks))

\* the item types that implement FixedLengthSerializable
SerializedLenOf(type) ==
    CASE type = "E164" -> E164_SERIALIZED_LEN
      [] type = "AciAndAccessKey" -> ACI_UAK_SERIALIZED_LEN

\* <It::Item as FixedLengthSerializable>::serialize_into
SerializeInto(type, item, target) ==
    CASE type = "E164" -> E164SerializeInto(item, target)
      [] type = "AciAndAccessKey" -> AciAndAccessKeySerializeInto(item, target)

\* collect_serialized: a zeroed output of SERIALIZED_LEN * len bytes, cut
\* by chunks_mut, each chunk written by the item zipped with it
CollectSerialized(type, items) ==
    LET output == Zeros(SerializedLenOf(type) * Len(items))
        chunks == Chunks(output, SerializedLenOf(type))
    IN  Flatten([i \in 1..Len(chunks) |->
                   IF i <= Len(items) THEN SerializeInto(type, items[i], chunks[i])
                   ELSE chunks[i]])

\* LookupRequest::into_client_request
IntoClientRequest(request) ==
    [aci_uak_pairs |-> CollectSerialized("AciAndAccessKey",
                                         request.acis_and_access_keys),
     new_e164s |-> CollectSerialized("E164", request.new_e164s),
     prev_e164s |-> CollectSerialized("E164", request.prev_e164s),
     return_acis_without_uaks |-> request.return_acis_without_uaks,
     token |-> request.token,
     token_ack |-> FALSE,
     discard_e164s |-> <<>>]

\* LookupRequest::default()
DefaultLookupRequest ==
    [new_e164s |-> <<>>, prev_e164s |-> <<>>, acis_and_access_keys |-> <<>>,
     return_acis_without_uaks |-> FALSE, token |-> <<>>]

\* 18005551001 + d, for d < 6247: the numbers of test::serialize_e164s
TestE164(d) == <<0, 4, 12598, 59289 + d>>
\* the pair i of test::serialize_acis_and_access_keys: i | 0x80 is i + 128
TestPair(i) ==
    [aci |-> [j \in 1..16 |-> i + 128], access_key |-> [j \in 1..16 |-> i]]

TEST_E164S == [i \in 1..5 |-> TestE164(i - 1)]
TEST_PAIRS == [i \in 1..5 |-> TestPair(i)]

\* phone numbers: the test's first two, 2^56 + 2^8 and 0xffff...ffff
E164Values == {TestE164(0), TestE164(1), <<256, 0, 0, 256>>, <<65535, 65535, 65535, 65535>>}
PairValues == {TestPair(1), TestPair(2), [aci |-> ACI_BYTES, access_key |-> UUID_LOW]}

RECURSIVE SeqsUpTo(_, _)
SeqsUpTo(S, n) ==
    IF n = 0 THEN {<<>>}
    ELSE SeqsUpTo(S, n - 1)
           \cup {Append(q, x) : q \in {r \in SeqsUpTo(S, n - 1) : Len(r) = n - 1}, x \in S}

LookupRequests ==
    [new_e164s : SeqsUpTo(E164Values, MaxItems) \cup {TEST_E164S},
     prev_e164s : {<<>>, <<TestE164(2)>>},
     acis_and_access_keys : SeqsUpTo(PairValues, MaxItems) \cup {TEST_PAIRS},
     return_acis_without_uaks : BOOLEAN,
     token : {<<>>, <<116, 111, 107>>}]

EncodeStep ==
    /\ ~eout.some
    /\ eout' = Some(IntoClientRequest(ein))
    /\ UNCHANGED <<cin, cout, ein, sessionVars>>

----------------------------------------------------------------------------
(* The conversions into LookupError.                                       *)

Protocol == [kind |-> "Protocol"]
ParseError == [kind |-> "ParseError"]
Timeout == [kind |-> "Timeout"]
RateLimited(secs) == [kind |-> "RateLimited", retry_after_seconds |-> secs]

\* the variants of AttestedConnectionError, each with the detail it wraps
AttestedConnectionErrors ==
    {[variant |-> "ClientConnection", inner |-> "client_connection_detail"],
     [variant |-> "WebSocket", inner |-> "web_socket_service_error"],
     [variant |-> "Protocol", inner |-> "none"],
     [variant |-> "Sgx", inner |-> "attest_enclave_error"]}

FromAttestedConnectionError_InvalidResponse(value) ==
    CASE value.variant = "ClientConnection" -> [kind |-> "InvalidResponse"]
      [] value.variant = "WebSocket" -> [kind |-> "WebSocket", inner |-> value.inner]
      [] value.variant = "Protocol" -> [kind |-> "InvalidResponse"]
      [] value.variant = "Sgx" -> [kind |-> "AttestationError", inner |-> value.inner]

\* From<AttestedConnectionError> for LookupError
FromAttestedConnectionError(value) ==
    CASE value.variant = "ClientConnection" -> Protocol
      [] value.variant = "WebSocket" -> [kind |-> "WebSocket", inner |-> value.inner]
      [] value.variant = "Protocol" -> Protocol
      [] value.variant = "Sgx" -> [kind |-> "AttestationError", inner |-> value.inner]

\* the variants of crate::enclave::Error (crate::svr::Error); connect is the
\* variant of the WebSocketConnectError inside WebSocketConnect
EnclaveErrors ==
    {[variant |-> "WebSocketConnect", connect |-> "Timeout", inner |-> "none"],
     [variant |-> "WebSocketConnect", connect |-> "Transport",
      inner |-> "transport_connect_error"],
     [variant |-> "WebSocketConnect", connect |-> "WebSocketError",
      inner |-> "tungstenite_error"],
     [variant |-> "AttestationError", connect |-> "none", inner |-> "attest_enclave_error"],
     [variant |-> "WebSocket", connect |-> "none", inner |-> "web_socket_service_error"],
     [variant |-> "Protocol", connect |-> "none", inner |-> "none"],
     [variant |-> "Timeout", connect |-> "none", inner |-> "none"]}

\* e.into(): a tungstenite error as a WebSocketServiceError
IntoWebSocketServiceError(e) ==
    CASE e = "tungstenite_error" -> "web_socket_service_error_of_tungstenite"

FromEnclaveError_TimeoutAsProtocol(value) ==
    CASE value.variant = "WebSocketConnect" ->
           (CASE value.connect = "Timeout" -> Timeout
              [] value.connect = "Transport" ->
                   [kind |-> "ConnectTransport", inner |-> value.inner]
              [] value.connect = "WebSocketError" ->
                   [kind |-> "WebSocket",
                    inner |-> IntoWebSocketServiceError(value.inner)])
      [] value.variant = "AttestationError" ->
           [kind |-> "AttestationError", inner |-> value.inner]
      [] value.variant = "WebSocket" -> [kind |-> "WebSocket", inner |-> value.inner]
      [] value.variant = "Protocol" -> Protocol
      [] value.variant = "Timeout" -> Protocol

\* From<crate::enclave::Error> for LookupError
FromEnclaveError(value) ==
    CASE value.variant = "WebSocketConnect" ->
           (CASE value.connect = "Timeout" -> Timeout
              [] value.connect = "Transport" ->
                   [kind |-> "ConnectTransport", inner |-> value.inner]
              [] value.connect = "WebSocketError" ->
                   [kind |-> "WebSocket",
                    inner |-> IntoWebSocketServiceError(value.inner)])
      [] value.variant = "AttestationError" ->
           [kind |-> "AttestationError", inner |-> value.inner]
      [] value.variant = "WebSocket" -> [kind |-> "WebSocket", inner |-> value.inner]
      [] value.variant = "Protocol" -> Protocol
      [] value.variant = "Timeout" -> Timeout

\* From<prost::DecodeError> for LookupError
FromDecodeError(value) == Protocol

\* From<LookupResponseParseError> for LookupError
FromLookupResponseParseError(value) ==
    CASE value.kind = "InvalidNumberOfBytes" -> ParseError

----------------------------------------------------------------------------
(* The close frame and its reason text.                                    *)
(*                                                                         *)
(* A reason text is kept as the JSON document it spells, or as "invalid"   *)
(* when it is not JSON (empty text, prose, trailing characters).  A JSON   *)
(* number keeps its sign, whether it has a fraction or exponent, and its   *)
(* decimal digits.                                                         *)

JNumber(digits) ==
    [t |-> "number", negative |-> FALSE, fraction |-> FALSE, digits |-> digits]
JNegative(digits) ==
    [t |-> "number", negative |-> TRUE, fraction |-> FALSE, digits |-> digits]
JString(s) == [t |-> "string", s |-> s]

JObject(members) == [form |-> "object", members |-> members]
JArray(items) == [form |-> "array", items |-> items]
JScalar(val) == [form |-> "scalar", val |-> val]
NotJson == [form |-> "invalid"]

Member(key, val) == [key |-> key, val |-> val]

\* decimal digits to a u32 (two 16-bit limbs), None when it exceeds u32::MAX
RECURSIVE ParseU32Digits(_, _)
ParseU32Digits(digits, acc) ==
    IF digits = <<>> THEN Some(acc)
    ELSE LET lo == acc[2] * 10 + Head(digits)
             hi == acc[1] * 10 + (lo \div 65536)
         IN  IF hi >= 65536 THEN None
             ELSE ParseU32Digits(Tail(digits), <<hi, lo % 65536>>)

\* u32 as Deserialize, from a JSON value: an unsigned integer that fits
DeserializeU32(val) ==
    IF val.t # "number" \/ val.negative \/ val.fraction THEN None
    ELSE ParseU32Digits(val.digits, <<0, 0>>)

\* the derived visit_map of RateLimitExceededResponse: the state is
\* "unset", <<"set", secs>> or "error"; other keys are ignored
RECURSIVE VisitMap(_, _)
VisitMap(members, state) ==
    IF state = <<"error">> THEN None
    ELSE IF members = <<>>
         THEN (IF state = <<"unset">> THEN None ELSE Some(state[2]))
    ELSE LET m == Head(members)
         IN  IF m.key # "retry_after_seconds"
             THEN VisitMap(Tail(members), state)
             ELSE IF state # <<"unset">> THEN None
             ELSE LET v == DeserializeU32(m.val)
                  IN  VisitMap(Tail(members),
                               IF v.some THEN <<"set", v.v>> ELSE <<"error">>)

\* serde_json::from_str::<RateLimitExceededResponse>: Some(retry_after_seconds)
\* on Ok, None on Err.  A struct is read from an object by field name or from
\* an array by position.
RateLimitFromStr(reason) ==
    CASE reason.form = "invalid" -> None
      [] reason.form = "scalar" -> None
      [] reason.form = "object" -> VisitMap(reason.members, <<"unset">>)
      [] reason.form = "array" ->
           IF Len(reason.items) # 1 THEN None
           ELSE DeserializeU32(reason.items[1])

\* {"retry_after_seconds": 30}
REASON_30 == JObject(<<Member("retry_after_seconds", JNumber(<<3, 0>>))>>)
\* {"retry_after_seconds": 4294967295}, u32::MAX
REASON_MAX ==
    JObject(<<Member("retry_after_seconds", JNumber(<<4, 2, 9, 4, 9, 6, 7, 2, 9, 5>>))>>)
\* {"retry_after_seconds": 4294967296}
REASON_OVERFLOW ==
    JObject(<<Member("retry_after_seconds", JNumber(<<4, 2, 9, 4, 9, 6, 7, 2, 9, 6>>))>>)
\* {"retry_after_seconds": "30"}
REASON_STRING == JObject(<<Member("retry_after_seconds", JString("30"))>>)
\* {"retry_after": 30}
REASON_OTHER_KEY == JObject(<<Member("retry_after", JNumber(<<3, 0>>))>>)
\* {"note": "x", "retry_after_seconds": 7}
REASON_EXTRA_KEY ==
    JObject(<<Member("note", JString("x")), Member("retry_after_seconds", JNumber(<<7>>))>>)
\* {"retry_after_seconds": -30}
REASON_NEGATIVE == JObject(<<Member("retry_after_seconds", JNegative(<<3, 0>>))>>)

\* [30]
REASON_ARRAY == JArray(<<JNumber(<<3, 0>>)>>)

ReasonSamples ==
    {NotJson, JScalar(JNumber(<<3, 0>>)), REASON_ARRAY, REASON_30, REASON_MAX, REASON_OVERFLOW,
     REASON_STRING, REASON_OTHER_KEY, REASON_EXTRA_KEY, REASON_NEGATIVE}

\* u16::from(close.code): normal closure, the rate-limit code, its neighbour
CloseCodeSamples == {1000, CLOSE_CODE, CLOSE_CODE + 1}

CloseFrame(code, reason) == [code |-> code, reason |-> reason]

CloseFrameSamples ==
    {CloseFrame(c, r) : c \in CloseCodeSamples, r \in ReasonSamples}

----------------------------------------------------------------------------
(* ClientResponse on the wire, and prost's merge.                          *)
(*                                                                         *)
(* A wire message is the sequence of the fields it carries, in order; a    *)
(* proto3 field holding its default value is normally not carried at all.  *)
(* A message that is not well formed (truncated, a wrong wire type) makes  *)
(* the decoder fail with a DecodeError.  e164_pni_aci_triples and token    *)
(* are singular `bytes` fields (Vec<u8>) and debug_permits_used a singular *)
(* int32: prost merges each by replacing the value held with the value     *)
(* carried (the protobuf rule "last one wins" for non-repeated fields);    *)
(* unknown fields are skipped.  That e164_pni_aci_triples is one Vec<u8>,  *)
(* not a repeated field, shows in try_from (len() % 40, chunks(40)) and in *)
(* test::parse_lookup_response_entries, which collects bytes into it.      *)

\* a field carrying bytes, and a field carrying a varint
BytesField(name, b) == [name |-> name, bytes |-> b, int |-> 0]
IntField(name, n) == [name |-> name, bytes |-> <<>>, int |-> n]
WireMessage(fields) == [fields |-> fields, wellformed |-> TRUE]
Truncated(fields) == [fields |-> fields, wellformed |-> FALSE]

\* ClientResponse::default()
DefaultClientResponse ==
    [e164_pni_aci_triples |-> <<>>, token |-> <<>>, debug_permits_used |-> 0]

MergeField_SumPermits(resp, f) ==
    CASE f.name = "e164_pni_aci_triples" -> [resp EXCEPT !.e164_pni_aci_triples = f.bytes]
      [] f.name = "token" -> [resp EXCEPT !.token = f.bytes]
      [] f.name = "debug_permits_used" -> [resp EXCEPT !.debug_permits_used = @ + f.int]
      [] OTHER -> resp

\* the merge_field of ClientResponse
MergeField(resp, f) ==
    CASE f.name = "e164_pni_aci_triples" -> [resp EXCEPT !.e164_pni_aci_triples = f.bytes]
      [] f.name = "token" -> [resp EXCEPT !.token = f.bytes]
      [] f.name = "debug_permits_used" -> [resp EXCEPT !.debug_permits_used = f.int]
      [] OTHER -> resp

RECURSIVE MergeFields(_, _)
MergeFields(resp, fields) ==
    IF fields = <<>> THEN resp
    ELSE MergeFields(MergeField(resp, Head(fields)), Tail(fields))

\* prost::Message::merge(&mut response, bytes)
Merge(resp, msg) ==
    IF ~msg.wellformed THEN Err([kind |-> "DecodeError"])
    ELSE Ok(MergeFields(resp, msg.fields))

\* prost::Message::decode: merge into the default value
Decode(msg) == Merge(DefaultClientResponse, msg)

TOKEN == <<116, 111, 107>>
RECORD_A == WireRecord(E164_TEST_BYTES, PNI_BYTES, ACI_BYTES)
RECORD_B == WireRecord(E164_HIGH_BYTES, Zeros(16), UUID_LOW)

\* the well-formed messages the service may send
WireSamples ==
    {WireMessage(<<BytesField("token", TOKEN)>>),
     WireMessage(<<BytesField("token", TOKEN), BytesField("e164_pni_aci_triples", RECORD_B),
                   IntField("debug_permits_used", 3), IntField("unknown", 9)>>),
     WireMessage(<<BytesField("e164_pni_aci_triples", RECORD_A)>>),
     WireMessage(<<BytesField("e164_pni_aci_triples", Slice(RECORD_A, 0, 24)),
                   IntField("debug_permits_used", 5)>>),
     WireMessage(<<BytesField("e164_pni_aci_triples", Slice(RECORD_A, 24, 40))>>),
     WireMessage(<<IntField("debug_permits_used", 7)>>),
     WireMessage(<<IntField("debug_permits_used", 0)>>)}

\* what receive_bytes() may yield: a payload, a close with or without a close
\* frame, or an error of the channel
Next_(item) == [kind |-> "Next", item |-> item]
Close(frame) == [kind |-> "Close", frame |-> frame]
Failed(e) == [kind |-> "Error", e |-> e]

CloseEvents == {Close(None)} \cup {Close(Some(f)) : f \in CloseFrameSamples}
ErrorEvents == {Failed(e) : e \in AttestedConnectionErrors}

ReceiveBytesEvents ==
    {Next_(m) : m \in WireSamples \cup {Truncated(<<BytesField("token", TOKEN)>>)}}
      \cup CloseEvents \cup ErrorEvents

\* what receive() may yield: the payload decoded as a ClientResponse
ReceiveEvents ==
    {Next_(Decode(m).v) : m \in WireSamples} \cup CloseEvents \cup ErrorEvents

----------------------------------------------------------------------------
(* The session.                                                            *)
(*                                                                         *)
(* holds says where the channel is: in a CdsiConnection the caller holds   *)
(* (conn), in the `self` of a running send_request, in a                   *)
(* ClientResponseCollector the caller holds (collector), or in the         *)
(* `connection` of a running collect.  send_request and collect take self  *)
(* by value: the caller can call them only with a handle it holds, and the *)
(* call moves the handle away.                                             *)

NoHandles ==
    [conn |-> FALSE, send_request |-> FALSE, collector |-> FALSE, collect |-> FALSE]

\* the operations on the channel, as recorded in ops
OpSendRequest == [op |-> "send", token_ack |-> FALSE]
OpSendTokenAck == [op |-> "send", token_ack |-> TRUE]
OpReceive == [op |-> "receive"]
OpReceiveBytes == [op |-> "receive_bytes"]

SessionInit ==
    /\ pc = "NotConnected"
    /\ holds = NoHandles
    /\ calls = [send_request |-> 0, collect |-> 0]
    /\ ops = <<>>
    /\ tokenEvent = None
    /\ srResult = None
    /\ response = None
    /\ streamed = <<>>
    /\ lastEvent = None
    /\ parsed = None
    /\ collectResult = None
    /\ connectResult = None
    /\ cause = None

\* CdsiConnection::connect
Connect ==
    /\ pc = "NotConnected"
    /\ \/ /\ connectResult' = Some(Ok("CdsiConnection"))
          /\ holds' = [holds EXCEPT !.conn = TRUE]
          /\ pc' = "Open"
          /\ cause' = cause
       \/ \E e \in EnclaveErrors :
            /\ connectResult' = Some(Err(FromEnclaveError(e)))
            /\ cause' = Raised("enclave", e)
            /\ holds' = holds
            /\ pc' = "ConnectFailed"
    /\ UNCHANGED <<calls, ops, tokenEvent, srResult, response, streamed,
                   lastEvent, parsed, collectResult, codecVars>>

EnterSendRequest_Borrowed(h) == [h EXCEPT !.send_request = TRUE]

\* send_request(mut self, ..): the CdsiConnection moves into the call
EnterSendRequest(h) == [h EXCEPT !.conn = FALSE, !.send_request = TRUE]

\* send_request up to its first await:
\*   self.0.send(request.into_client_request()).await?
SendRequest_Send ==
    /\ holds.conn
    /\ calls' = [calls EXCEPT !.send_request = @ + 1]
    /\ ops' = Append(ops, OpSendRequest)
    /\ \/ /\ holds' = EnterSendRequest(holds)
          /\ pc' = "SR_receive"
          /\ srResult' = srResult
          /\ cause' = cause
       \/ \E e \in AttestedConnectionErrors :
            /\ holds' = [EnterSendRequest(holds) EXCEPT !.send_request = FALSE]
            /\ pc' = "SR_returned"
            /\ srResult' = Some(Err(FromAttestedConnectionError(e)))
            /\ cause' = Raised("channel", e)
    /\ UNCHANGED <<tokenEvent, response, streamed, lastEvent, parsed,
                   collectResult, connectResult, codecVars>>

SendRequestOnClose_AnyCode(close) ==
    IF /\ close.some
       /\ RateLimitFromStr(close.v.reason).some
    THEN Err(RateLimited(RateLimitFromStr(close.v.reason).v))
    ELSE Err(Protocol)

\* the Close arm of send_request's match
SendRequestOnClose(close) ==
    IF /\ close.some
       /\ close.v.code = CLOSE_CODE
       /\ RateLimitFromStr(close.v.reason).some
    THEN Err(RateLimited(RateLimitFromStr(close.v.reason).v))
    ELSE Err(Protocol)

SendRequestOutcome_NoTokenCheck(ev) ==
    CASE ev.kind = "Error" -> Err(FromAttestedConnectionError(ev.e))
      [] ev.kind = "Close" -> SendRequestOnClose(ev.frame)
      [] ev.kind = "Next" ->
           Ok([token |-> ev.item.token, collector |-> "ClientResponseCollector"])

\* send_request after its send: what it returns for what receive() yielded
SendRequestOutcome(ev) ==
    CASE ev.kind = "Error" -> Err(FromAttestedConnectionError(ev.e))
      [] ev.kind = "Close" -> SendRequestOnClose(ev.frame)
      [] ev.kind = "Next" ->
           IF ev.item.token = <<>> THEN Err(Protocol)
           ELSE Ok([token |-> ev.item.token, collector |-> "ClientResponseCollector"])

\* send_request from self.0.receive().await? to its return
SendRequest_Receive ==
    /\ pc = "SR_receive"
    /\ \E ev \in ReceiveEvents :
         /\ ops' = Append(ops, OpReceive)
         /\ tokenEvent' = Some(ev)
         /\ srResult' = Some(SendRequestOutcome(ev))
         /\ cause' = IF ev.kind = "Error" THEN Raised("channel", ev.e) ELSE cause
         /\ holds' = [holds EXCEPT !.send_request = FALSE,
                                   !.collector = SendRequestOutcome(ev).ok]
    /\ pc' = "SR_returned"
    /\ UNCHANGED <<calls, response, streamed, lastEvent, parsed, collectResult,
                   connectResult, codecVars>>

\* collect(self): `let Self(mut connection) = self` moves the collector in
EnterCollect_Borrowed(h) == [h EXCEPT !.collect = TRUE]

EnterCollect(h) == [h EXCEPT !.collector = FALSE, !.collect = TRUE]

Collect_Send_NoAck ==
    /\ holds.collector
    /\ calls' = [calls EXCEPT !.collect = @ + 1]
    /\ holds' = EnterCollect(holds)
    /\ pc' = "C_receive"
    /\ UNCHANGED <<ops, tokenEvent, srResult, response, streamed, lastEvent, parsed,
                   collectResult, connectResult, cause, codecVars>>

\* collect up to its first await: connection.0.send(token_ack).await?
Collect_Send ==
    /\ holds.collector
    /\ calls' = [calls EXCEPT !.collect = @ + 1]
    /\ ops' = Append(ops, OpSendTokenAck)
    /\ \/ /\ holds' = EnterCollect(holds)
          /\ pc' = "C_receive"
          /\ collectResult' = collectResult
          /\ cause' = cause
       \/ \E e \in AttestedConnectionErrors :
            /\ holds' = [EnterCollect(holds) EXCEPT !.collect = FALSE]
            /\ pc' = "C_returned"
            /\ collectResult' = Some(Err(FromAttestedConnectionError(e)))
            /\ cause' = Raised("channel", e)
    /\ UNCHANGED <<tokenEvent, srResult, response, streamed, lastEvent, parsed,
                   connectResult, codecVars>>

\* NextOrClose::next_or: the item of Next, the given error for Close
NextOr(nc, err) == IF nc.kind = "Next" THEN Ok(nc.item) ELSE Err(err)

CollectFirstOutcome_RateLimit(ev) ==
    CASE ev.kind = "Error" -> Err(FromAttestedConnectionError(ev.e))
      [] ev.kind = "Close" -> SendRequestOnClose(ev.frame)
      [] ev.kind = "Next" -> Ok(ev.item)

CollectFirstOutcome_TokenChecked(ev) ==
    CASE ev.kind = "Error" -> Err(FromAttestedConnectionError(ev.e))
      [] ev.kind = "Next" /\ ev.item.token = <<>> -> Err(Protocol)
      [] OTHER -> NextOr(ev, Protocol)

\* connection.0.receive().await?.next_or(LookupError::Protocol)?
CollectFirstOutcome(ev) ==
    CASE ev.kind = "Error" -> Err(FromAttestedConnectionError(ev.e))
      [] OTHER -> NextOr(ev, Protocol)

\* collect from its first receive to the loop, or to its return
Collect_Receive ==
    /\ pc = "C_receive"
    /\ \E ev \in ReceiveEvents :
         /\ ops' = Append(ops, OpReceive)
         /\ lastEvent' = Some(ev)
         /\ cause' = IF ev.kind = "Error" THEN Raised("channel", ev.e) ELSE cause
         /\ IF CollectFirstOutcome(ev).ok
            THEN /\ response' = Some(CollectFirstOutcome(ev).v)
                 /\ streamed' = <<ev.item>>
                 /\ pc' = "C_receive_bytes"
                 /\ UNCHANGED <<holds, collectResult>>
            ELSE /\ collectResult' = Some(CollectFirstOutcome(ev))
                 /\ holds' = [holds EXCEPT !.collect = FALSE]
                 /\ pc' = "C_returned"
                 /\ UNCHANGED <<response, streamed>>
    /\ UNCHANGED <<calls, tokenEvent, srResult, parsed, connectResult, codecVars>>

\* Ok(response.try_into()?)
CollectFinish(resp) ==
    LET p == LookupResponseTryFrom(resp)
    IN  [response |-> resp,
         parsed |-> Some(p),
         raised |-> IF p.ok THEN None ELSE Raised("length", p.e),
         result |-> Some(IF p.ok THEN Ok(p.v)
                         ELSE Err(FromLookupResponseParseError(p.e)))]

CollectOnLoopEvent_CloseChecked(resp, ev) ==
    CASE ev.kind = "Error" ->
           [response |-> resp, parsed |-> None, raised |-> Raised("channel", ev.e),
            result |-> Some(Err(FromAttestedConnectionError(ev.e)))]
      [] ev.kind = "Next" ->
           LET m == Merge(resp, ev.item)
           IN  IF m.ok
               THEN [response |-> m.v, parsed |-> None, raised |-> None,
                     result |-> None]
               ELSE [response |-> resp, parsed |-> None,
                     raised |-> Raised("decode", m.e),
                     result |-> Some(Err(FromDecodeError(m.e)))]
      [] ev.kind = "Close" ->
           IF ev.frame.some /\ ev.frame.v.code # 1000
           THEN [response |-> resp, parsed |-> None, raised |-> None,
                 result |-> Some(SendRequestOnClose(ev.frame))]
           ELSE CollectFinish(resp)

CollectOnLoopEvent_EmptyFrameEnds(resp, ev) ==
    CASE ev.kind = "Error" ->
           [response |-> resp, parsed |-> None, raised |-> Raised("channel", ev.e),
            result |-> Some(Err(FromAttestedConnectionError(ev.e)))]
      [] ev.kind = "Next" ->
           LET m == Merge(resp, ev.item)
           IN  IF ~m.ok
               THEN [response |-> resp, parsed |-> None,
                     raised |-> Raised("decode", m.e),
                     result |-> Some(Err(FromDecodeError(m.e)))]
               ELSE IF Decode(ev.item).v.e164_pni_aci_triples = <<>>
               THEN CollectFinish(m.v)
               ELSE [response |-> m.v, parsed |-> None, raised |-> None,
                     result |-> None]
      [] ev.kind = "Close" -> CollectFinish(resp)

\* one turn of
\*   while let NextOrClose::Next(decoded) = connection.0.receive_bytes().await?
\* and, when the loop ends, the rest of collect: result is None while the
\* loop goes on
CollectOnLoopEvent(resp, ev) ==
    CASE ev.kind = "Error" ->
           [response |-> resp, parsed |-> None, raised |-> Raised("channel", ev.e),
            result |-> Some(Err(FromAttestedConnectionError(ev.e)))]
      [] ev.kind = "Next" ->
           LET m == Merge(resp, ev.item)
           IN  IF m.ok
               THEN [response |-> m.v, parsed |-> None, raised |-> None,
                     result |-> None]
               ELSE [response |-> resp, parsed |-> None,
                     raised |-> Raised("decode", m.e),
                     result |-> Some(Err(FromDecodeError(m.e)))]
      [] ev.kind = "Close" -> CollectFinish(resp)

\* collect at connection.0.receive_bytes().await?
Collect_ReceiveBytes ==
    /\ pc = "C_receive_bytes"
    /\ \E ev \in ReceiveBytesEvents :
         /\ ev.kind = "Next" => Len(streamed) <= MaxFrames
         /\ ops' = Append(ops, OpReceiveBytes)
         /\ lastEvent' = Some(ev)
         /\ streamed' = IF ev.kind = "Next" THEN Append(streamed, ev.item)
                        ELSE streamed
         /\ LET o == CollectOnLoopEvent(response.v, ev)
            IN  /\ response' = Some(o.response)
                /\ parsed' = o.parsed
                /\ collectResult' = o.result
                /\ cause' = o.raised
                /\ holds' = [holds EXCEPT !.collect = ~o.result.some]
                /\ pc' = IF o.result.some THEN "C_returned" ELSE "C_receive_bytes"
    /\ UNCHANGED <<calls, tokenEvent, srResult, connectResult, codecVars>>

\* the messages of a service that goes on streaming
StreamOnSamples ==
    {WireMessage(<<IntField("debug_permits_used", 7)>>),
     WireMessage(<<IntField("debug_permits_used", 0)>>)}

\* collect at connection.0.receive_bytes().await?, for the frames after the
\* first MaxFrames ones: the loop goes on as before; the histories ops and
\* streamed keep the first frames only
Collect_ReceiveBytes_More ==
    /\ pc = "C_receive_bytes"
    /\ Len(streamed) > MaxFrames
    /\ \E ev \in {Next_(m) : m \in StreamOnSamples} :
         /\ lastEvent' = Some(ev)
         /\ LET o == CollectOnLoopEvent(response.v, ev)
            IN  /\ response' = Some(o.response)
                /\ parsed' = o.parsed
                /\ collectResult' = o.result
                /\ cause' = o.raised
                /\ holds' = [holds EXCEPT !.collect = ~o.result.some]
                /\ pc' = IF o.result.some THEN "C_returned" ELSE "C_receive_bytes"
    /\ UNCHANGED <<calls, ops, streamed, tokenEvent, srResult, connectResult,
                   codecVars>>

----------------------------------------------------------------------------
(* The specifications.                                                     *)

\* the session, with the decoder under test left alone
Init ==
    /\ SessionInit
    /\ cin = DefaultClientResponse
    /\ cout = None
    /\ ein = DefaultLookupRequest
    /\ eout = None

Next ==
    \/ Connect
    \/ SendRequest_Send
    \/ SendRequest_Receive
    \/ Collect_Send
    \/ Collect_Receive
    \/ Collect_ReceiveBytes

Spec == Init /\ [][Next]_vars

\* the channel delivers a close or an error to the raw-receive loop
ServerEnds == Collect_ReceiveBytes /\ lastEvent'.v.kind # "Next"

LiveNext ==
    \/ Connect
    \/ SendRequest_Send
    \/ SendRequest_Receive
    \/ Collect_Send
    \/ Collect_Receive
    \/ Collect_ReceiveBytes
    \/ Collect_ReceiveBytes_More

\* the session with a service that may stream without end: the caller goes
\* on to the next operation, every await is resumed, and the channel
\* eventually delivers a close or an error to the loop
LiveSpec ==
    /\ Init
    /\ [][LiveNext]_vars
    /\ WF_vars(Connect)
    /\ WF_vars(SendRequest_Send)
    /\ WF_vars(SendRequest_Receive)
    /\ WF_vars(Collect_Send)
    /\ WF_vars(Collect_Receive)
    /\ WF_vars(ServerEnds)

\* the same without the channel's promise to end the stream
StreamingSpec ==
    /\ Init
    /\ [][LiveNext]_vars
    /\ WF_vars(LiveNext)

\* the decoder on every sample buffer and the encoder on every sample
\* request, with the session left alone
CodecInit ==
    /\ SessionInit
    /\ cout = None
    /\ eout = None
    /\ \/ /\ cin \in [e164_pni_aci_triples : Buffers, token : {<<>>, TOKEN},
                      debug_permits_used : PermitSamples]
          /\ ein = DefaultLookupRequest
       \/ /\ cin = DefaultClientResponse
          /\ ein \in LookupRequests

CodecNext ==
    \/ DecodeStep
    \/ EncodeStep

CodecSpec == CodecInit /\ [][CodecNext]_vars

----------------------------------------------------------------------------
(* The claims.                                                             *)

\* the operation the protocol performs at place i of a session
ProtocolOp(i) ==
    CASE i = 1 -> OpSendRequest
      [] i = 2 -> OpReceive
      [] i = 3 -> OpSendTokenAck
      [] i = 4 -> OpReceive
      [] OTHER -> OpReceiveBytes

AckSent == \E i \in 1..Len(ops) : ops[i] = OpSendTokenAck

\* the first reply of the session was a message with this property
TokenReplyIsNext == tokenEvent.some /\ tokenEvent.v.kind = "Next"

\* C1: the operations on the channel are a prefix of send(request), receive,
\* send(acknowledgment), receive, receive_bytes, receive_bytes, ...; the
\* acknowledgment is sent only after a reply with a non-empty token came in.
C1_ChannelOpsArePrefix ==
    /\ \A i \in 1..Len(ops) : ops[i] = ProtocolOp(i)
    /\ AckSent => (TokenReplyIsNext /\ tokenEvent.v.item.token # <<>>)

C1_Witness ==
    /\ pc = "C_returned"
    /\ Len(ops) = 4 + MaxFrames + 1
    /\ collectResult.some /\ collectResult.v.ok

\* C2: send_request is entered at most once and collect at most once, collect
\* only after a send_request that returned Ok, the phases run in order, and
\* the channel is never in two places at once.
C2_PhasesLinear ==
    /\ calls.send_request <= 1
    /\ calls.collect <= 1
    /\ calls.collect >= 1 =>
         (calls.send_request = 1 /\ srResult.some /\ srResult.v.ok)
    /\ Cardinality({h \in DOMAIN holds : holds[h]}) <= 1
    /\ pc \in {"SR_receive", "SR_returned"} => calls = [send_request |-> 1, collect |-> 0]
    /\ pc \in {"C_receive", "C_receive_bytes", "C_returned"} =>
         calls = [send_request |-> 1, collect |-> 1]
    /\ pc \in {"NotConnected", "ConnectFailed", "Open"} =>
         calls = [send_request |-> 0, collect |-> 0]

C2_Witness ==
    /\ pc = "C_returned"
    /\ calls = [send_request |-> 1, collect |-> 1]
    /\ holds = NoHandles

\* C3: when the first reply is a message with an empty token, send_request
\* returns Err(Protocol), hands out no token and no collector, and no
\* acknowledgment is ever sent.
C3_EmptyTokenIsProtocol ==
    (TokenReplyIsNext /\ tokenEvent.v.item.token = <<>>) =>
        /\ srResult = Some(Err(Protocol))
        /\ pc = "SR_returned"
        /\ ~holds.collector /\ ~holds.collect
        /\ calls.collect = 0
        /\ ~AckSent

C3_Witness ==
    /\ TokenReplyIsNext
    /\ tokenEvent.v.item.token = <<>>
    /\ tokenEvent.v.item.e164_pni_aci_triples # <<>>
    /\ srResult.some

\* the delay each sample reason text carries, when it carries one
ExpectedDelay(reason) ==
    CASE reason = REASON_30 -> Some(<<0, 30>>)
      [] reason = REASON_ARRAY -> Some(<<0, 30>>)
      [] reason = REASON_EXTRA_KEY -> Some(<<0, 7>>)
      [] reason = REASON_MAX -> Some(<<65535, 65535>>)
      [] OTHER -> None

\* C4: when the receive of send_request yields a close, send_request fails:
\* with RateLimited carrying the delay of the reason text when the code is
\* 4008 and the text parses, with Protocol for any other code, for an
\* unparseable text and for a close without a close frame.
C4_CloseInSendRequest ==
    (tokenEvent.some /\ tokenEvent.v.kind = "Close") =>
        LET frame == tokenEvent.v.frame
            limited == /\ frame.some
                       /\ frame.v.code = 4008
                       /\ ExpectedDelay(frame.v.reason).some
        IN  /\ pc = "SR_returned"
            /\ ~holds.collector
            /\ srResult.some /\ ~srResult.v.ok
            /\ limited =>
                 srResult.v.e = RateLimited(ExpectedDelay(frame.v.reason).v)
            /\ ~limited => srResult.v.e = Protocol

C4_Witness ==
    /\ tokenEvent.some /\ tokenEvent.v.kind = "Close"
    /\ tokenEvent.v.frame = Some(CloseFrame(4008, REASON_MAX))
    /\ srResult = Some(Err(RateLimited(<<65535, 65535>>)))

\* C5: when the first receive of collect yields a close, collect fails with
\* Protocol whatever the close carries, also for code 4008 with a reason
\* text that parses.
C5_CloseBeforeFirstMessage ==
    (calls.collect = 1 /\ Len(ops) = 4 /\ lastEvent.some /\ lastEvent.v.kind = "Close") =>
        /\ pc = "C_returned"
        /\ collectResult = Some(Err(Protocol))

C5_Witness ==
    /\ Len(ops) = 4
    /\ lastEvent = Some(Close(Some(CloseFrame(4008, REASON_30))))
    /\ collectResult = Some(Err(Protocol))

\* C6: in the raw-receive loop a close, whatever it carries, ends the loop
\* without an error of its own: collect then returns what the decoder makes
\* of the accumulated message, Ok when the accumulated length is a multiple
\* of 40 and Err(ParseError) otherwise.
C6_CloseEndsLoop ==
    (calls.collect = 1 /\ Len(ops) >= 5 /\ lastEvent.some /\ lastEvent.v.kind = "Close") =>
        /\ pc = "C_returned"
        /\ parsed = Some(LookupResponseTryFrom(response.v))
        /\ collectResult.some
        /\ IF Len(response.v.e164_pni_aci_triples) % 40 = 0
           THEN /\ collectResult.v.ok
                /\ collectResult.v = Ok(parsed.v.v)
                /\ collectResult.v.v.debug_permits_used = response.v.debug_permits_used
           ELSE collectResult.v = Err(ParseError)

C6_Witness ==
    /\ Len(ops) >= 6
    /\ lastEvent = Some(Close(Some(CloseFrame(4008, REASON_30))))
    /\ collectResult.some /\ collectResult.v.ok
    /\ Len(collectResult.v.v.records) = 1

\* message i of the Streaming phase as a ClientResponse of its own: the
\* first one came decoded, the others as wire messages
Streamed(i) == IF i = 1 THEN streamed[1] ELSE Decode(streamed[i]).v

RECURSIVE ConcatTriples(_)
ConcatTriples(k) ==
    IF k = 0 THEN <<>>
    ELSE ConcatTriples(k - 1) \o Streamed(k).e164_pni_aci_triples

\* C7: the buffer handed to the decoder is the concatenation, in receive
\* order, of the result-triple bytes of the messages streamed.
C7_BufferIsConcatenation ==
    (pc = "C_returned" /\ parsed.some) =>
        response.v.e164_pni_aci_triples = ConcatTriples(Len(streamed))

\* what the code does instead: the buffer is the result-triple bytes of the
\* latest streamed message that carries the field
CarriesField(i, name) ==
    \E j \in 1..Len(streamed[i].fields) : streamed[i].fields[j].name = name

BufferIsLatestCarried ==
    (pc = "C_returned" /\ parsed.some) =>
        LET carriers == {i \in 2..Len(streamed) : CarriesField(i, "e164_pni_aci_triples")}
            latest == CHOOSE i \in carriers : \A j \in carriers : j <= i
        IN  response.v.e164_pni_aci_triples =
              IF carriers = {} THEN streamed[1].e164_pni_aci_triples
              ELSE Streamed(latest).e164_pni_aci_triples

\* C8 as stated: the usage counter returned is the usage-counter field of
\* the last message streamed.
C8_CounterOfLastMessage ==
    (pc = "C_returned" /\ collectResult.some /\ collectResult.v.ok) =>
        collectResult.v.v.debug_permits_used =
          Streamed(Len(streamed)).debug_permits_used

\* C8, amended: the usage counter returned is the one of the latest streamed
\* message that carries the field on the wire, and the one of the first
\* message (0 when it carried none) if no later message carries it.
C8_CounterOfLatestCarried ==
    (pc = "C_returned" /\ collectResult.some /\ collectResult.v.ok) =>
        LET carriers == {i \in 2..Len(streamed) : CarriesField(i, "debug_permits_used")}
            latest == CHOOSE i \in carriers : \A j \in carriers : j <= i
        IN  collectResult.v.v.debug_permits_used =
              IF carriers = {} THEN streamed[1].debug_permits_used
              ELSE Streamed(latest).debug_permits_used

C8_Witness ==
    /\ pc = "C_returned"
    /\ collectResult.some /\ collectResult.v.ok
    /\ Len(streamed) = 3
    /\ CarriesField(2, "debug_permits_used")
    /\ ~CarriesField(3, "debug_permits_used")
    /\ collectResult.v.v.debug_permits_used = 7

\* C9: the decoder fails exactly when the length of the buffer is not a
\* multiple of 40, and the error then carries that length.
C9_LengthCheck ==
    cout.some =>
        LET n == Len(cin.e164_pni_aci_triples)
        IN  IF n % 40 # 0
            THEN cout.v = Err([kind |-> "InvalidNumberOfBytes", actual_length |-> n])
            ELSE cout.v.ok

C9_Witness ==
    /\ cout.some
    /\ ~cout.v.ok
    /\ cout.v.e.actual_length = 41

\* byte j (1..40) of chunk i (1..) of the buffer given to the decoder
ChunkByte(i, j) == cin.e164_pni_aci_triples[40 * (i - 1) + j]

\* the identifier in bytes [from, from + 16) of chunk i
SlotAt(i, from) ==
    IF \A j \in 1..16 : ChunkByte(i, from + j) = 0 THEN None
    ELSE Some([j \in 1..16 |-> ChunkByte(i, from + j)])

\* C10: a buffer of n chunks with non-zero phone numbers decodes to n
\* records in chunk order: the phone number big-endian from bytes [0:8), pni
\* from [8:24), aci from [24:40), an identifier None exactly when its bytes
\* are all zero; the record of the test repeated gives that many records.
C10_RecordsInChunkOrder ==
    LET buf == cin.e164_pni_aci_triples
        n == Len(buf) \div 40
    IN  (/\ cout.some
         /\ Len(buf) % 40 = 0
         /\ \A i \in 1..n : \E j \in 1..8 : ChunkByte(i, j) # 0) =>
            /\ cout.v.ok
            /\ cout.v.v.debug_permits_used = cin.debug_permits_used
            /\ Len(cout.v.v.records) = n
            /\ \A i \in 1..n :
                 cout.v.v.records[i] =
                   [e164 |-> [k \in 1..4 |-> ChunkByte(i, 2 * k - 1) * 256
                                               + ChunkByte(i, 2 * k)],
                    aci |-> SlotAt(i, 24),
                    pni |-> SlotAt(i, 8)]
            /\ buf = RECORD_A \o RECORD_A =>
                 cout.v.v.records =
                   [i \in 1..2 |-> [e164 |-> <<0, 4, 12598, 59289>>,
                                    aci |-> Some(ACI_BYTES),
                                    pni |-> Some(PNI_BYTES)]]

C10_Witness ==
    /\ cout.some
    /\ cin.e164_pni_aci_triples = RECORD_A \o RECORD_A
    /\ cout.v.ok
    /\ Len(cout.v.v.records) = 2
    /\ cout.v.v.records[1] = cout.v.v.records[2]
    /\ cout.v.v.records[2].aci = Some(ACI_BYTES)

\* bytes [(i - 1) * len, i * len) of buf, as a sequence
ItemBytes(buf, len, i) == [j \in 1..len |-> buf[(i - 1) * len + j]]

\* buf is the phone numbers, 8 bytes each big-endian, in order
IsE164Encoding(buf, items) ==
    /\ Len(buf) = 8 * Len(items)
    /\ \A i \in 1..Len(buf) : buf[i] \in 0..255
    /\ \A i \in 1..Len(items) :
         \A k \in 1..4 :
           ItemBytes(buf, 8, i)[2 * k - 1] * 256 + ItemBytes(buf, 8, i)[2 * k]
             = items[i][k]

\* C11: the encoder gives K times the item length bytes, item i in bytes
\* [i*L, (i+1)*L), in input order: a phone number as 8 bytes big-endian, a
\* pair as its 16 identifier bytes then its 16 access-key bytes; 5 pairs
\* give 160 bytes; no items give the empty buffer.
C11_EncoderConcatenates ==
    eout.some =>
        /\ IsE164Encoding(eout.v.new_e164s, ein.new_e164s)
        /\ IsE164Encoding(eout.v.prev_e164s, ein.prev_e164s)
        /\ Len(eout.v.aci_uak_pairs) = 32 * Len(ein.acis_and_access_keys)
        /\ \A i \in 1..Len(ein.acis_and_access_keys) :
             /\ SubSeq(ItemBytes(eout.v.aci_uak_pairs, 32, i), 1, 16)
                  = ein.acis_and_access_keys[i].aci
             /\ SubSeq(ItemBytes(eout.v.aci_uak_pairs, 32, i), 17, 32)
                  = ein.acis_and_access_keys[i].access_key
        /\ ein.new_e164s = <<>> => eout.v.new_e164s = <<>>
        /\ ein.acis_and_access_keys = <<>> => eout.v.aci_uak_pairs = <<>>
        /\ ein.new_e164s = TEST_E164S =>
             eout.v.new_e164s =
               <<0, 0, 0, 4, 49, 54, 231, 153>> \o <<0, 0, 0, 4, 49, 54, 231, 154>>
                 \o <<0, 0, 0, 4, 49, 54, 231, 155>> \o <<0, 0, 0, 4, 49, 54, 231, 156>>
                 \o <<0, 0, 0, 4, 49, 54, 231, 157>>
        /\ ein.acis_and_access_keys = TEST_PAIRS =>
             /\ Len(eout.v.aci_uak_pairs) = 160
             /\ \A j \in 1..160 :
                  eout.v.aci_uak_pairs[j] =
                    ((j - 1) \div 32) + 1 + (IF (j - 1) % 32 < 16 THEN 128 ELSE 0)

C11_Witness ==
    /\ eout.some
    /\ ein.new_e164s = TEST_E164S
    /\ ein.acis_and_access_keys = TEST_PAIRS
    /\ Len(eout.v.aci_uak_pairs) = 160
    /\ Len(eout.v.new_e164s) = 40

\* the eight kinds of LookupError
LookupErrorKinds ==
    {"Protocol", "AttestationError", "InvalidResponse", "RateLimited", "ParseError",
     "ConnectTransport", "WebSocket", "Timeout"}

\* r is the result of an operation that has returned a failure
IsFailure(r) == r.some /\ ~r.v.ok

\* the failures the three operations have returned so far, as error kinds
Failures ==
    {k \in LookupErrorKinds \cup {"other"} :
       \/ IsFailure(connectResult) /\ connectResult.v.e.kind = k
       \/ IsFailure(srResult) /\ srResult.v.e.kind = k
       \/ IsFailure(collectResult) /\ collectResult.v.e.kind = k}

\* some returned failure is of none of the eight kinds
Unclassified ==
    \/ IsFailure(connectResult) /\ connectResult.v.e.kind \notin LookupErrorKinds
    \/ IsFailure(srResult) /\ srResult.v.e.kind \notin LookupErrorKinds
    \/ IsFailure(collectResult) /\ collectResult.v.e.kind \notin LookupErrorKinds

\* the kind each lower-layer error value is to be reported as
KindFor(raised) ==
    CASE raised.layer = "channel" ->
           (CASE raised.e.variant \in {"ClientConnection", "Protocol"} -> "Protocol"
              [] raised.e.variant = "WebSocket" -> "WebSocket"
              [] raised.e.variant = "Sgx" -> "AttestationError")
      [] raised.layer = "enclave" ->
           (CASE raised.e.variant = "Timeout" -> "Timeout"
              [] raised.e.variant = "WebSocketConnect" ->
                   (CASE raised.e.connect = "Timeout" -> "Timeout"
                      [] raised.e.connect = "Transport" -> "ConnectTransport"
                      [] raised.e.connect = "WebSocketError" -> "WebSocket")
              [] raised.e.variant = "WebSocket" -> "WebSocket"
              [] raised.e.variant = "AttestationError" -> "AttestationError"
              [] raised.e.variant = "Protocol" -> "Protocol")
      [] raised.layer = "decode" -> "Protocol"
      [] raised.layer = "length" -> "ParseError"

\* C12: every failure connect, send_request or collect returns is one of the
\* eight kinds, and every lower-layer error is reported as the one kind the
\* mapping gives it: channel ClientConnection and Protocol as Protocol,
\* channel WebSocket as WebSocket, channel Sgx as AttestationError; both
\* connect timeouts as Timeout, connect Transport as ConnectTransport, connect
\* WebSocketError and enclave WebSocket as WebSocket, enclave
\* AttestationError as AttestationError, enclave Protocol as Protocol; a
\* decode error as Protocol; the length error as ParseError.  No lower-layer
\* error goes unreported.
C12_ErrorsMapped ==
    /\ ~Unclassified
    /\ cause.some => Failures = {KindFor(cause.v)}

C12_Witness ==
    /\ cause = Raised("enclave", [variant |-> "Timeout", connect |-> "none",
                                  inner |-> "none"])
    /\ connectResult = Some(Err(Timeout))

\* C19: no outcome of connect, send_request or collect is InvalidResponse;
\* RateLimited comes from send_request only, Timeout from connect only.
C19_KindsByOperation ==
    /\ "InvalidResponse" \notin Failures
    /\ IsFailure(connectResult) => connectResult.v.e.kind # "RateLimited"
    /\ IsFailure(collectResult) => collectResult.v.e.kind # "RateLimited"
    /\ IsFailure(srResult) => srResult.v.e.kind # "Timeout"
    /\ IsFailure(collectResult) => collectResult.v.e.kind # "Timeout"

C19_Witness ==
    /\ srResult.some
    /\ ~srResult.v.ok
    /\ srResult.v.e.kind = "RateLimited"
    /\ tokenEvent.v.kind = "Close"

\* some operation of the session has returned a failure
AnyFailure ==
    IsFailure(connectResult) \/ IsFailure(srResult) \/ IsFailure(collectResult)

\* how many of the three operations have returned a failure
FailureCount ==
    (IF IsFailure(connectResult) THEN 1 ELSE 0)
      + (IF IsFailure(srResult) THEN 1 ELSE 0)
      + (IF IsFailure(collectResult) THEN 1 ELSE 0)

\* C13: every failure is terminal and nothing is retried: after a failed
\* step (RateLimited and Timeout included) the session does no further send
\* or receive, the request is sent at most once, the caller gets exactly one
\* error value, and a channel error in the raw-receive loop ends collect
\* with the mapped error and no LookupResponse.
C13_FailureIsTerminal ==
    /\ [](/\ FailureCount <= 1
          /\ Cardinality({i \in 1..Len(ops) : ops[i] = OpSendRequest}) <= 1
          /\ cause.some => AnyFailure
          /\ (pc = "C_returned" /\ lastEvent.some /\ lastEvent.v.kind = "Error")
               => /\ IsFailure(collectResult)
                  /\ collectResult.v.e.kind = KindFor([layer |-> "channel",
                                                       e |-> lastEvent.v.e])
                  /\ ~parsed.some)
    /\ [][AnyFailure =>
            /\ ops' = ops
            /\ calls' = calls
            /\ connectResult' = connectResult
            /\ srResult' = srResult
            /\ collectResult' = collectResult]_vars

C13_Witness ==
    /\ pc = "C_returned"
    /\ Len(ops) = 6
    /\ lastEvent.v.kind = "Error"
    /\ IsFailure(collectResult)
    /\ collectResult.v.e.kind = "WebSocket"

\* the chunks of the given buffer whose phone-number bytes are not all zero
KeptChunks ==
    {i \in 1..(Len(cin.e164_pni_aci_triples) \div 40) :
       \E j \in 1..8 : ChunkByte(i, j) # 0}

\* the place chunk i takes among the kept chunks
Rank(i) == Cardinality({k \in KeptChunks : k <= i})

\* C15: a chunk whose phone-number bytes are all zero is dropped without an
\* error: every buffer of a multiple of 40 bytes decodes, to as many records
\* as it has chunks with a non-zero phone number, and the records of those
\* chunks keep their chunk order.
C15_ZeroPhoneDropped ==
    (cout.some /\ Len(cin.e164_pni_aci_triples) % 40 = 0) =>
        /\ cout.v.ok
        /\ Len(cout.v.v.records) = Cardinality(KeptChunks)
        /\ \A i \in KeptChunks :
             cout.v.v.records[Rank(i)] =
               [e164 |-> [k \in 1..4 |-> ChunkByte(i, 2 * k - 1) * 256
                                           + ChunkByte(i, 2 * k)],
                aci |-> SlotAt(i, 24),
                pni |-> SlotAt(i, 8)]

C15_Witness ==
    /\ cout.some
    /\ Len(cin.e164_pni_aci_triples) = 120
    /\ KeptChunks = {1, 3}
    /\ cout.v.ok
    /\ Len(cout.v.v.records) = 2
    /\ cout.v.v.records[1].e164 # cout.v.v.records[2].e164

\* collect has returned a LookupResponse
Done == collectResult.some /\ collectResult.v.ok

\* C16: a LookupResponse is returned only after, in this order, the request
\* was sent, a reply with a non-empty token was received, the
\* acknowledgment was sent, at least one Streaming message was received, a
\* close was seen in the raw-receive loop, and the accumulated buffer had a
\* length that is a multiple of 40.  Nothing follows Done.
C16_DoneOnlyAfterFullRun ==
    /\ [](Done =>
            /\ connectResult = Some(Ok("CdsiConnection"))
            /\ Len(ops) >= 5
            /\ ops[1] = OpSendRequest
            /\ ops[2] = OpReceive
            /\ tokenEvent.some
            /\ tokenEvent.v.kind = "Next"
            /\ tokenEvent.v.item.token # <<>>
            /\ srResult.v.ok
            /\ ops[3] = OpSendTokenAck
            /\ ops[4] = OpReceive
            /\ Len(streamed) >= 1
            /\ \A i \in 5..Len(ops) : ops[i] = OpReceiveBytes
            /\ lastEvent.v.kind = "Close"
            /\ Len(response.v.e164_pni_aci_triples) % 40 = 0
            /\ parsed.some
            /\ parsed.v.ok
            /\ collectResult.v.v = parsed.v.v
            /\ holds = NoHandles)
    /\ [][~Done]_vars

C16_Witness ==
    /\ Done
    /\ Len(ops) = 6
    /\ Len(streamed) = 2
    /\ Len(collectResult.v.v.records) = 1

\* collect has returned after a close seen in the raw-receive loop
ClosedInLoop ==
    /\ pc = "C_returned"
    /\ collectResult.some
    /\ Len(streamed) >= 1
    /\ lastEvent.v.kind = "Close"

\* C17: the divisibility check is made once, on the final accumulated
\* buffer, never on a single frame: a collect ended by a close succeeds
\* exactly when the total length of the result-triple bytes streamed is a
\* multiple of 40, and otherwise fails with ParseError and no records.
C17_CheckOnTotalLength ==
    ClosedInLoop =>
        LET total == Len(ConcatTriples(Len(streamed)))
        IN  /\ collectResult.v.ok <=> total % 40 = 0
            /\ total % 40 # 0 => collectResult.v = Err(ParseError)

\* the value the field has after the streamed messages alone were merged:
\* that of the latest raw message carrying it, else that of the first message
FromStreaming(name) ==
    LET carriers == {i \in 2..Len(streamed) : CarriesField(i, name)}
        latest == CHOOSE i \in carriers : \A j \in carriers : j <= i
    IN  IF carriers = {} THEN streamed[1][name] ELSE Streamed(latest)[name]

\* C18: the token reply gives the token and nothing else: result-triple
\* bytes and a usage counter it carries are in no LookupResponse, which is
\* made of the messages received after the acknowledgment alone; a token in
\* a Streaming message is ignored and an empty one there is not an error.
C18_TokenReplyGivesTokenOnly ==
    /\ (srResult.some /\ srResult.v.ok) =>
         srResult.v.v.token = tokenEvent.v.item.token
    /\ Done =>
         /\ collectResult.v.v.records =
              FlatMapParse(Chunks(FromStreaming("e164_pni_aci_triples"), 40))
         /\ collectResult.v.v.debug_permits_used = FromStreaming("debug_permits_used")
         /\ (\A i \in 1..Len(streamed) : Streamed(i).e164_pni_aci_triples = <<>>)
              => collectResult.v.v.records = <<>>
         /\ (\A i \in 1..Len(streamed) : Streamed(i).debug_permits_used = 0)
              => collectResult.v.v.debug_permits_used = 0
    /\ (Len(ops) >= 4 /\ lastEvent.some /\ lastEvent.v.kind = "Next"
          /\ (Len(ops) > 4 => lastEvent.v.item.wellformed)) =>
         /\ pc = "C_receive_bytes"
         /\ ~collectResult.some

C18_Witness ==
    /\ Done
    /\ tokenEvent.v.item.e164_pni_aci_triples # <<>>
    /\ tokenEvent.v.item.debug_permits_used = 3
    /\ streamed[1].token = <<>>
    /\ Len(streamed) = 2
    /\ Streamed(2).token # <<>>
    /\ collectResult.v.v.debug_permits_used = 0
    /\ collectResult.v.v.records = <<>>

\* a payload that merges is received in the raw-receive loop
LoopMerges ==
    /\ pc = "C_receive_bytes"
    /\ lastEvent'.v.kind = "Next"
    /\ lastEvent'.v.item.wellformed
    /\ Collect_ReceiveBytes \/ Collect_ReceiveBytes_More

\* the session reaches Done or a failure.  It does so under LiveSpec and not
\* under StreamingSpec, where the service may stream without end
SessionEnds == <>(Done \/ AnyFailure)

\* C20: collect ends only when the service ends it: a payload that merges
\* never ends the loop, whatever the number of frames before it, the loop
\* ends only on a close or an error, and when the channel eventually
\* delivers a close or an error every session reaches Done or a failure.
C20_ServerDrivesTermination ==
    /\ [][LoopMerges => (pc' = "C_receive_bytes" /\ ~collectResult'.some)]_vars
    /\ [][(pc = "C_receive_bytes" /\ pc' = "C_returned") =>
            \/ lastEvent'.v.kind \in {"Close", "Error"}
            \/ ~lastEvent'.v.item.wellformed]_vars
    /\ SessionEnds

\* collect is still in its loop after more frames than the histories keep
C20_Witness ==
    /\ pc = "C_receive_bytes"
    /\ Len(ops) = 4 + MaxFrames
    /\ lastEvent.v.kind = "Next"
    /\ lastEvent.v.item \in StreamOnSamples
    /\ lastEvent.v.item # streamed[Len(streamed)]
    /\ response.v.debug_permits_used = 0
    /\ ~collectResult.some

====
